---- MODULE Spec2Model ----
(***************************************************************************)
(* Model of the rock-paper-scissors Discord bot of src/src/main.rs.        *)
(*                                                                         *)
(* The program's state is the process-wide registry SESSIONS, a set of     *)
(* (user id, message id) pairs, and, for every invitation command, the     *)
(* position of its handler task (interaction_create) together with the     *)
(* message that hosts the session.  The game state itself (whose turn it   *)
(* is, the pending first move) is not stored by the program: it is carried *)
(* by the custom_ids of the buttons on the hosting message, so the model   *)
(* keeps the message.                                                      *)
(*                                                                         *)
(* A custom_id such as "17-rock-paper" is modelled as the sequence of its  *)
(* "-"-separated parts, <<"17", "rock", "paper">>: what split("-") yields. *)
(***************************************************************************)
EXTENDS Integers, Sequences, FiniteSets

\* A button press reaches the handler some time after it was made, so a press
\* can be of a button the message no longer shows.  MaxStale is the number of
\* earlier versions of a hosting message whose buttons can still be pressed.
MaxStale == 1

\* Human users, and one bot account (User::bot is true for it).
Humans == {1, 2, 3}
Bots == {4}
Users == Humans \cup Bots
NoUser == 0

\* The invitation commands (handler tasks) the model runs.
Cmds == {1, 2}

\* The id of the message that answers command c (response.id): distinct
\* commands are answered by distinct messages.
MsgId(c) == c

Moves == {"rock", "paper", "scissors"}

\* UserId::to_string / Display of a user id.
to_string(u) ==
    CASE u = 1 -> "1"
      [] u = 2 -> "2"
      [] u = 3 -> "3"
      [] u = 4 -> "4"
      [] OTHER -> "0"

VARIABLES
    SESSIONS,       \* the registry: set of <<user id, message id>>
    pc,             \* position of each command's handler task
    cmd_user,       \* cmd.user.id of each command (the initiator)
    opponent,       \* opponent.id of each command (the responder)
    message,        \* the message hosting each command's session
    stale,          \* the buttons of the message's latest earlier
                    \* versions, while the event stream can yield them
    round_counter,  \* value of the loop-local round_counter when the
                    \* latest iteration of the event loop ended
    notice          \* the ephemeral reply of the latest step, if any

vars == <<SESSIONS, pc, cmd_user, opponent, message, stale,
          round_counter, notice>>

\* Handler positions.  "checked": the occupancy test passed and the task is
\* suspended in create_interaction_response; "prompted": the confirmation
\* prompt is published and the task is suspended in
\* get_interaction_response; "loop": suspended in interaction_stream.next().
\* The others are the ways the handler returns; "unused" is the position of a
\* command that is never issued.
Running == {"checked", "prompted", "loop"}
Terminal == {"invalid", "occupied", "failed", "declined", "resolved",
             "stopped", "expired"}

NoNotice == [ephemeral |-> FALSE, text |-> ""]
NoMessage == [kind |-> "none", round |-> 0, who |-> NoUser,
              components |-> {}, winner_turn |-> "", loser_turn |-> ""]

Init ==
    /\ SESSIONS = {}
    /\ pc = [c \in Cmds |-> "idle"]
    /\ cmd_user = [c \in Cmds |-> NoUser]
    /\ opponent = [c \in Cmds |-> NoUser]
    /\ message = [c \in Cmds |-> NoMessage]
    /\ stale = [c \in Cmds |-> <<>>]
    /\ round_counter = [c \in Cmds |-> 1]
    /\ notice = NoNotice

\* The state after construction when one command only is ever issued: the
\* handler of every other command never starts.
InitOne ==
    /\ SESSIONS = {}
    /\ pc = [c \in Cmds |-> IF c = 1 THEN "idle" ELSE "unused"]
    /\ cmd_user = [c \in Cmds |-> NoUser]
    /\ opponent = [c \in Cmds |-> NoUser]
    /\ message = [c \in Cmds |-> NoMessage]
    /\ stale = [c \in Cmds |-> <<>>]
    /\ round_counter = [c \in Cmds |-> 1]
    /\ notice = NoNotice

\* Replies are best effort: every create_interaction_response may fail, and
\* its Err is discarded.  An UpdateMessage reply that is delivered replaces
\* the hosting message; one that fails leaves it as it was.
Earlier(c) ==
    LET all == <<message[c].components>> \o stale[c]
    IN  SubSeq(all, 1, IF Len(all) <= MaxStale THEN Len(all) ELSE MaxStale)

UpdateMessage(c, ok, m) ==
    /\ message' = IF ok THEN [message EXCEPT ![c] = m] ELSE message
    /\ stale' = IF ok THEN [stale EXCEPT ![c] = Earlier(c)] ELSE stale

\* The custom_ids a press on the hosting message can carry.
Pressable(c) ==
    message[c].components
        \cup UNION {stale[c][i] : i \in 1 .. Len(stale[c])}

\* id is one of them.
CanPress(c, id) ==
    \/ id \in message[c].components
    \/ \E i \in 1 .. Len(stale[c]) : id \in stale[c][i]

\* The last UpdateMessage reply of a handler that then breaks out of the
\* loop: the stream is dropped, and no press is consumed any more.
FinalMessage(c, ok, m) ==
    /\ message' = IF ok THEN [message EXCEPT ![c] = m] ELSE message
    /\ stale' = [stale EXCEPT ![c] = <<>>]

\* An ephemeral reply (.ephemeral(true)) is shown to the user whose
\* interaction it answers and to nobody else.  notice records the reply the
\* handler issues; whether it arrives changes nothing.
Ephemeral(text) ==
    notice' = [ephemeral |-> TRUE, text |-> text]

\* Release that toggles: an entry that is absent is put in.
Release_Toggle(c) ==
    LET toggle(S, e) == IF e \in S THEN S \ {e} ELSE S \cup {e}
    IN  toggle(toggle(SESSIONS, <<opponent[c], MsgId(c)>>),
               <<cmd_user[c], MsgId(c)>>)

\* Release that removes by user: every entry of the two participants goes,
\* whatever message it names.
Release_ByUser(c) ==
    {s \in SESSIONS : s[1] \notin {opponent[c], cmd_user[c]}}

\* Both removals of a terminal branch: the opponent's entry, then the
\* initiator's, under one lock.
Release(c) ==
    (SESSIONS \ {<<opponent[c], MsgId(c)>>}) \ {<<cmd_user[c], MsgId(c)>>}

\* The four buttons of a first-move prompt and of a second-move prompt.
FirstMoveButtons(u) ==
    {<<to_string(u), m>> : m \in Moves} \cup {<<"stop">>}

SecondMoveButtons(o, suffix) ==
    {<<to_string(o), suffix, m>> : m \in Moves} \cup {<<"stop">>}

ConfirmationMsg(c) ==
    [NoMessage EXCEPT !.kind = "Confirmation", !.who = cmd_user[c],
                      !.components = {<<"play">>, <<"deny">>}]

RoundMsg(n, u, buttons) ==
    [NoMessage EXCEPT !.kind = "Round", !.round = n, !.who = u,
                      !.components = buttons]

\* Occupied that looks for the first user only.
Occupied_InitiatorOnly(a, b) ==
    \E s \in SESSIONS : s[1] = a

\* SESSIONS.lock().unwrap().iter().any(|(u, _)| u == a || u == b)
Occupied(a, b) ==
    \E s \in SESSIONS : s[1] = a \/ s[1] = b

\* User ids are opaque: the program only tests them for equality.  Commands
\* are therefore numbered in the order they are issued, and human users in
\* the order they first take part in one (the user of the first command is
\* user 1, and so on).
Known == {cmd_user[c] : c \in Cmds} \cup {opponent[c] : c \in Cmds}
NextOf(S) == {h \in Humans : \A k \in Humans : k < h => k \in S}

\* Invoke with the two tests in the other order: occupancy, then opponent.
Invoke_OccupancyFirst(c, u, o) ==
    /\ pc[c] = "idle"
    /\ \A d \in Cmds : d < c => pc[d] # "idle"
    /\ u \in NextOf(Known)
    /\ o \in NextOf(Known \cup {u}) \cup Bots
    /\ cmd_user' = [cmd_user EXCEPT ![c] = u]
    /\ opponent' = [opponent EXCEPT ![c] = o]
    /\ IF Occupied(u, o)
         THEN /\ pc' = [pc EXCEPT ![c] = "occupied"]
              /\ Ephemeral("Either user is already playing tic-tac-toe!")
         ELSE IF o \in Bots \/ o = u
         THEN /\ pc' = [pc EXCEPT ![c] = "invalid"]
              /\ Ephemeral("You cannot play against the specified user!")
         ELSE /\ pc' = [pc EXCEPT ![c] = "checked"]
              /\ notice' = NoNotice
    /\ UNCHANGED <<SESSIONS, message, stale, round_counter>>

\* interaction_create, application command: from the start of the handler to
\* its first suspension.  The opponent test, then the occupancy test; a
\* command that passes both goes on to publish the confirmation prompt.
Invoke(c, u, o) ==
    /\ pc[c] = "idle"
    /\ \A d \in Cmds : d < c => pc[d] # "idle"
    /\ u \in NextOf(Known)
    /\ o \in NextOf(Known \cup {u}) \cup Bots
    /\ cmd_user' = [cmd_user EXCEPT ![c] = u]
    /\ opponent' = [opponent EXCEPT ![c] = o]
    /\ IF o \in Bots \/ o = u
         THEN /\ pc' = [pc EXCEPT ![c] = "invalid"]
              /\ Ephemeral("You cannot play against the specified user!")
         ELSE IF Occupied(u, o)
         THEN /\ pc' = [pc EXCEPT ![c] = "occupied"]
              /\ Ephemeral("Either user is already playing tic-tac-toe!")
         ELSE /\ pc' = [pc EXCEPT ![c] = "checked"]
              /\ notice' = NoNotice
    /\ UNCHANGED <<SESSIONS, message, stale, round_counter>>

\* The confirmation prompt is published (create_interaction_response
\* returns Ok), or the handler returns on Err.
Prompt(c, ok) ==
    /\ pc[c] = "checked"
    /\ pc' = [pc EXCEPT ![c] = IF ok THEN "prompted" ELSE "failed"]
    /\ message' = IF ok THEN [message EXCEPT ![c] = ConfirmationMsg(c)]
                        ELSE message
    /\ notice' = NoNotice
    /\ UNCHANGED <<SESSIONS, cmd_user, opponent, stale, round_counter>>

\* get_interaction_response returns; on Ok both registry entries are
\* inserted and the event stream is built, on Err the handler returns.
Register(c, ok) ==
    /\ pc[c] = "prompted"
    /\ IF ok
         THEN /\ SESSIONS' = SESSIONS \cup {<<cmd_user[c], MsgId(c)>>,
                                            <<opponent[c], MsgId(c)>>}
              /\ pc' = [pc EXCEPT ![c] = "loop"]
         ELSE /\ SESSIONS' = SESSIONS
              /\ pc' = [pc EXCEPT ![c] = "failed"]
    /\ notice' = NoNotice
    /\ UNCHANGED <<cmd_user, opponent, message, stale, round_counter>>

\* winner with two arms of the scissors row exchanged.
winner_ScissorsRowSwapped(starter_turn, suffix, user, opp) ==
    CASE starter_turn = "rock" ->
            (CASE suffix = "rock" -> NoUser
               [] suffix = "paper" -> opp
               [] OTHER -> user)
      [] starter_turn = "paper" ->
            (CASE suffix = "rock" -> user
               [] suffix = "paper" -> NoUser
               [] OTHER -> opp)
      [] OTHER ->
            (CASE suffix = "rock" -> user
               [] suffix = "paper" -> opp
               [] OTHER -> NoUser)

\* The winner of a round: the match on (starter_turn, suffix).  starter_turn
\* is the initiator's move, suffix the responder's; NoUser stands for None.
winner(starter_turn, suffix, user, opp) ==
    CASE starter_turn = "rock" ->
            (CASE suffix = "rock" -> NoUser
               [] suffix = "paper" -> opp
               [] OTHER -> user)
      [] starter_turn = "paper" ->
            (CASE suffix = "rock" -> user
               [] suffix = "paper" -> NoUser
               [] OTHER -> opp)
      [] OTHER ->
            (CASE suffix = "rock" -> opp
               [] suffix = "paper" -> user
               [] OTHER -> NoUser)

\* The label a move is shown with in the final result.
TurnLabel(t) ==
    CASE t = "rock" -> "Rock"
      [] t = "paper" -> "Paper"
      [] OTHER -> "Scissors"

\* ResultMsg with the two conditions the same way round: the moves are
\* shown under each other's heading.
ResultMsg_TurnsSwapped(c, w, starter_turn, suffix) ==
    LET winner_turn == IF w = cmd_user[c] THEN suffix ELSE starter_turn
        loser_turn == IF w = cmd_user[c] THEN starter_turn ELSE suffix
    IN  [NoMessage EXCEPT !.kind = "Congratulations", !.who = w,
                          !.winner_turn = TurnLabel(winner_turn),
                          !.loser_turn = TurnLabel(loser_turn)]

\* The final result published on a decisive round.
ResultMsg(c, w, starter_turn, suffix) ==
    LET winner_turn == IF w = cmd_user[c] THEN starter_turn ELSE suffix
        loser_turn == IF w = cmd_user[c] THEN suffix ELSE starter_turn
    IN  [NoMessage EXCEPT !.kind = "Congratulations", !.who = w,
                          !.winner_turn = TurnLabel(winner_turn),
                          !.loser_turn = TurnLabel(loser_turn)]

\* Play that hands the first move to the user who pressed.
Play_ResponderFirst(c, u, id, ok) ==
    /\ UpdateMessage(c, ok, RoundMsg(1, u, FirstMoveButtons(u)))
    /\ round_counter' = [round_counter EXCEPT ![c] = 1]
    /\ notice' = NoNotice
    /\ UNCHANGED <<SESSIONS, pc, cmd_user, opponent>>

\* "play" pressed by the opponent: the round-1 prompt, the initiator to move.
Play(c, u, id, ok) ==
    /\ UpdateMessage(c, ok, RoundMsg(1, cmd_user[c],
                                     FirstMoveButtons(cmd_user[c])))
    /\ round_counter' = [round_counter EXCEPT ![c] = 1]
    /\ notice' = NoNotice
    /\ UNCHANGED <<SESSIONS, pc, cmd_user, opponent>>

\* Deny with the second removal forgotten.
Deny_KeepsInitiator(c, u, id, ok) ==
    /\ pc' = [pc EXCEPT ![c] = "declined"]
    /\ FinalMessage(c, ok, [NoMessage EXCEPT !.kind = "Denied",
                                             !.who = opponent[c]])
    /\ SESSIONS' = SESSIONS \ {<<opponent[c], MsgId(c)>>}
    /\ round_counter' = [round_counter EXCEPT ![c] = 1]
    /\ notice' = NoNotice
    /\ UNCHANGED <<cmd_user, opponent>>

\* Deny without the break: the entries are released and the loop goes on.
Deny_NoBreak(c, u, id, ok) ==
    /\ UpdateMessage(c, ok, [NoMessage EXCEPT !.kind = "Denied",
                                              !.who = opponent[c]])
    /\ SESSIONS' = Release(c)
    /\ round_counter' = [round_counter EXCEPT ![c] = 1]
    /\ notice' = NoNotice
    /\ UNCHANGED <<pc, cmd_user, opponent>>

\* "deny" pressed by the opponent: the decline notice, release, break.
Deny(c, u, id, ok) ==
    /\ pc' = [pc EXCEPT ![c] = "declined"]
    /\ FinalMessage(c, ok, [NoMessage EXCEPT !.kind = "Denied",
                                             !.who = opponent[c]])
    /\ SESSIONS' = Release(c)
    /\ round_counter' = [round_counter EXCEPT ![c] = 1]
    /\ notice' = NoNotice
    /\ UNCHANGED <<cmd_user, opponent>>

\* NotResponder without the test of who pressed: the press is a decline.
NotResponder_Declines(c, u, id) ==
    /\ pc' = [pc EXCEPT ![c] = "declined"]
    /\ message' = [message EXCEPT ![c] = [NoMessage EXCEPT !.kind = "Denied",
                                                    !.who = opponent[c]]]
    /\ stale' = [stale EXCEPT ![c] = <<>>]
    /\ SESSIONS' = Release(c)
    /\ round_counter' = [round_counter EXCEPT ![c] = 1]
    /\ notice' = NoNotice
    /\ UNCHANGED <<cmd_user, opponent>>

\* "play" or "deny" pressed by anyone but the opponent.
NotResponder(c, u, id) ==
    /\ Ephemeral("You are not the user who has to reply to the command!")
    /\ round_counter' = [round_counter EXCEPT ![c] = 1]
    /\ UNCHANGED <<SESSIONS, pc, cmd_user, opponent, message, stale>>

\* A move pressed by the initiator on a button that names them: the buttons
\* are replaced by the opponent's, which carry the move in their custom_id.
FirstMove(c, u, id, ok) ==
    /\ UpdateMessage(c, ok, RoundMsg(1, opponent[c],
                          SecondMoveButtons(opponent[c], id[Len(id)])))
    /\ round_counter' = [round_counter EXCEPT ![c] = 1]
    /\ notice' = NoNotice
    /\ UNCHANGED <<SESSIONS, pc, cmd_user, opponent>>

\* Decisive with the release left out.
Decisive_NoRelease(c, u, id, ok) ==
    LET suffix == id[Len(id)]
        starter_turn == id[2]
        w == winner(starter_turn, suffix, cmd_user[c], opponent[c])
    IN  /\ pc' = [pc EXCEPT ![c] = "resolved"]
        /\ FinalMessage(c, ok, ResultMsg(c, w, starter_turn, suffix))
        /\ SESSIONS' = SESSIONS
        /\ round_counter' = [round_counter EXCEPT ![c] = 1]
        /\ notice' = NoNotice
        /\ UNCHANGED <<cmd_user, opponent>>

\* The second move of a round, with a winner: final result, release, break.
Decisive(c, u, id, ok) ==
    LET suffix == id[Len(id)]
        starter_turn == id[2]
        w == winner(starter_turn, suffix, cmd_user[c], opponent[c])
    IN  /\ pc' = [pc EXCEPT ![c] = "resolved"]
        /\ FinalMessage(c, ok, ResultMsg(c, w, starter_turn, suffix))
        /\ SESSIONS' = Release(c)
        /\ round_counter' = [round_counter EXCEPT ![c] = 1]
        /\ notice' = NoNotice
        /\ UNCHANGED <<cmd_user, opponent>>

\* Tie that hands the next round's first move to the user who moved last.
Tie_ResponderFirst(c, u, id, ok) ==
    /\ round_counter' = [round_counter EXCEPT ![c] = 1 + 1]
    /\ UpdateMessage(c, ok, RoundMsg(round_counter'[c], u,
                                     FirstMoveButtons(u)))
    /\ notice' = NoNotice
    /\ UNCHANGED <<SESSIONS, pc, cmd_user, opponent>>

\* The second move of a round, without a winner: round_counter += 1 and a
\* new first-move prompt for the initiator.
Tie(c, u, id, ok) ==
    /\ round_counter' = [round_counter EXCEPT ![c] = 1 + 1]
    /\ UpdateMessage(c, ok, RoundMsg(round_counter'[c], cmd_user[c],
                                     FirstMoveButtons(cmd_user[c])))
    /\ notice' = NoNotice
    /\ UNCHANGED <<SESSIONS, pc, cmd_user, opponent>>

\* RejectMove with || for && in the choice of the text.
RejectMove_OrForAnd(c, u, id) ==
    /\ Ephemeral(IF id[1] # to_string(cmd_user[c])
                       \/ id[1] # to_string(opponent[c])
                    THEN "You did not invoke the initial command!"
                    ELSE "It is not your turn at the moment!")
    /\ round_counter' = [round_counter EXCEPT ![c] = 1]
    /\ UNCHANGED <<SESSIONS, pc, cmd_user, opponent, message, stale>>

\* A move pressed on a button whose id[0] is not the acting user.
RejectMove(c, u, id) ==
    /\ Ephemeral(IF id[1] # to_string(cmd_user[c])
                       /\ id[1] # to_string(opponent[c])
                    THEN "You did not invoke the initial command!"
                    ELSE "It is not your turn at the moment!")
    /\ round_counter' = [round_counter EXCEPT ![c] = 1]
    /\ UNCHANGED <<SESSIONS, pc, cmd_user, opponent, message, stale>>

\* Stop that releases the initiator's entry only.
Stop_KeepsOpponent(c, u, id, ok) ==
    /\ pc' = [pc EXCEPT ![c] = "stopped"]
    /\ FinalMessage(c, ok, [NoMessage EXCEPT !.kind = "Warning",
                                             !.who = u])
    /\ SESSIONS' = SESSIONS \ {<<cmd_user[c], MsgId(c)>>}
    /\ round_counter' = [round_counter EXCEPT ![c] = 1]
    /\ notice' = NoNotice
    /\ UNCHANGED <<cmd_user, opponent>>

\* Any other custom_id ("stop"): the termination notice, release, break.
Stop(c, u, id, ok) ==
    /\ pc' = [pc EXCEPT ![c] = "stopped"]
    /\ FinalMessage(c, ok, [NoMessage EXCEPT !.kind = "Warning",
                                             !.who = u])
    /\ SESSIONS' = Release(c)
    /\ round_counter' = [round_counter EXCEPT ![c] = 1]
    /\ notice' = NoNotice
    /\ UNCHANGED <<cmd_user, opponent>>

\* One iteration of the event loop: user u presses a button with custom_id
\* id on the hosting message, and the match on its suffix picks the branch.
\* A press is of a button the message shows or showed, never of one it never
\* had.
interaction(c, u, id, ok) ==
    /\ pc[c] = "loop"
    /\ CanPress(c, id)
    /\ LET suffix == id[Len(id)]
       IN  CASE suffix \in {"play", "deny"} ->
                  IF u = opponent[c]
                    THEN IF suffix = "play" THEN Play(c, u, id, ok)
                                            ELSE Deny(c, u, id, ok)
                    ELSE ok /\ NotResponder(c, u, id)
             [] suffix \in Moves ->
                  IF to_string(u) = id[1]
                    THEN IF u = cmd_user[c]
                           THEN FirstMove(c, u, id, ok)
                           ELSE IF winner(id[2], suffix, cmd_user[c],
                                          opponent[c]) # NoUser
                                  THEN Decisive(c, u, id, ok)
                                  ELSE Tie(c, u, id, ok)
                    ELSE ok /\ RejectMove(c, u, id)
             [] OTHER -> Stop(c, u, id, ok)

\* Timeout after which the handler waits on: the loop does not end.
Timeout_KeepsWaiting(c) ==
    /\ pc[c] = "loop"
    /\ notice' = NoNotice
    /\ UNCHANGED <<SESSIONS, pc, cmd_user, opponent, message, stale,
                   round_counter>>

\* The stream's timeout elapses: next() yields None and the handler returns.
Timeout(c) ==
    /\ pc[c] = "loop"
    /\ pc' = [pc EXCEPT ![c] = "expired"]
    /\ stale' = [stale EXCEPT ![c] = <<>>]
    /\ notice' = NoNotice
    /\ UNCHANGED <<SESSIONS, cmd_user, opponent, message, round_counter>>

\* Ids a deleted message can have: a hosting message that was published, or
\* some other message of the channel.
OtherMsg == 0
Deletable ==
    {MsgId(c) : c \in {d \in Cmds : pc[d] \notin {"idle", "checked"}}}
        \cup {OtherMsg}

\* message_delete that filters on the wrong component of the pair.
message_delete_ByUser(id) ==
    /\ SESSIONS' = {session \in SESSIONS : session[1] # id}
    /\ notice' = NoNotice
    /\ UNCHANGED <<pc, cmd_user, opponent, message, stale, round_counter>>

\* message_delete: every entry whose message id is the deleted one goes.
message_delete(id) ==
    /\ SESSIONS' = {session \in SESSIONS : session[2] # id}
    /\ notice' = NoNotice
    /\ UNCHANGED <<pc, cmd_user, opponent, message, stale, round_counter>>

Next ==
    \/ \E c \in Cmds, u \in Humans, o \in Users : Invoke(c, u, o)
    \/ \E c \in Cmds, ok \in BOOLEAN : Prompt(c, ok)
    \/ \E c \in Cmds, ok \in BOOLEAN : Register(c, ok)
    \/ \E c \in Cmds, u \in Humans, ok \in BOOLEAN :
          \E id \in Pressable(c) : interaction(c, u, id, ok)
    \/ \E c \in Cmds : Timeout(c)
    \/ \E id \in Deletable : message_delete(id)

\* Two commands, whose handlers run concurrently.
Spec == Init /\ [][Next]_vars

\* A single command: one session from invitation to its end.
SpecOne == InitOne /\ [][Next]_vars

\* The timeout is a deadline set when the stream is built: while a handler
\* is in its loop, the deadline comes.
Fairness == \A c \in Cmds : WF_vars(Timeout(c))

\* A single command, with the deadline.
SpecOneFair == InitOne /\ [][Next]_vars /\ Fairness

(***************************************************************************)
(* Views of a session used by the properties.                              *)
(***************************************************************************)

\* The registry entries a session's handler inserts.
Entries(c) == {<<cmd_user[c], MsgId(c)>>, <<opponent[c], MsgId(c)>>}

Released(c) == Entries(c) \cap SESSIONS = {}

\* The same, one step later.
ReleasedNext(c) == Entries(c) \cap SESSIONS' = {}

\* Some delivery outcome of the press (c, u, id) is the step taken.
Press(c, u, id) == \E ok \in BOOLEAN : interaction(c, u, id, ok)

\* The dominance table: Rock > Scissors > Paper > Rock.
Beats(a, b) ==
    <<a, b>> \in {<<"rock", "scissors">>, <<"scissors", "paper">>,
                  <<"paper", "rock">>}

(***************************************************************************)
(* Properties.                                                             *)
(***************************************************************************)

\* C1: in every reachable state each user id appears in the registry with
\* at most one message (session) id.
C1_OneSessionPerUser ==
    \A s \in SESSIONS, t \in SESSIONS : s[1] = t[1] => s[2] = t[2]

\* C2: admission is atomic.  The occupancy test and the insertion of the two
\* entries are one indivisible step: when a command inserts its entries,
\* neither of its participants owns an entry, so of two concurrent commands
\* that share a participant only one is admitted.
C2_AtomicAdmission ==
    [][\A c \in Cmds :
          (pc[c] = "prompted" /\ pc'[c] = "loop")
              => ~Occupied(cmd_user[c], opponent[c])]_vars

\* C3: when a session's event stream ends because the timeout elapsed, the
\* registry entries of its initiator and of its responder are absent
\* afterwards.
C3_TimeoutReleases ==
    \A c \in Cmds : pc[c] = "expired" => Released(c)

\* C4: when the responder declines, the session is terminated, both
\* participants' registry entries for it are gone, and the round number is
\* still 1.
C4_DeclineReleases ==
    \A c \in Cmds :
        pc[c] = "declined" => (Released(c) /\ round_counter[c] = 1)

C4_Witness ==
    \E c \in Cmds : pc[c] = "declined" /\ message[c].kind = "Denied"

\* C5: a round whose two moves differ terminates the session and removes
\* both participants' registry entries; a round whose two moves are equal
\* keeps the session running and leaves the registry as it is.
C5_RoundOutcome ==
    [][\A c \in Cmds, u \in Humans :
          \A id \in Pressable(c) :
              (/\ Len(id) = 3
               /\ to_string(u) = id[1]
               /\ u # cmd_user[c]
               /\ Press(c, u, id))
                  => IF id[2] # id[3]
                       THEN pc'[c] = "resolved" /\ ReleasedNext(c)
                       ELSE pc'[c] = "loop" /\ SESSIONS' = SESSIONS]_vars

\* A session that had a tied round (round 2 was announced) and then ended
\* on a decisive one, whose result could not be delivered.
C5_Witness ==
    \E c \in Cmds :
        /\ pc[c] = "resolved"
        /\ message[c].kind = "Round" /\ message[c].round = 2
        /\ Released(c)

\* C6: a stop press by the initiator or the responder ends the session at
\* once, whatever the message shows (prompt, first or second move, any
\* round), and removes both participants' registry entries.
C6_StopEnds ==
    [][\A c \in Cmds, u \in Humans :
          (u \in {cmd_user[c], opponent[c]} /\ Press(c, u, <<"stop">>))
              => (pc'[c] = "stopped" /\ ReleasedNext(c))]_vars

C6_Witness ==
    \E c \in Cmds :
        /\ pc[c] = "stopped"
        /\ message[c].kind = "Warning"
        /\ message[c].who \in {cmd_user[c], opponent[c]}

\* C7: deleting a hosting message removes every registry entry with that
\* message id, whoever its user is, and leaves every entry with another
\* message id in place.
C7_DeletePurges ==
    [][\A id \in Deletable :
          message_delete(id)
              => /\ \A s \in SESSIONS : (s \in SESSIONS') <=> (s[2] # id)
                 /\ SESSIONS' \subseteq SESSIONS]_vars

C7_Witness ==
    \E c \in Cmds, d \in Cmds :
        /\ pc[c] = "loop" /\ Released(c)
        /\ pc[d] = "loop" /\ Entries(d) \subseteq SESSIONS

\* C8: within one session the announced round number never decreases, and
\* a tied round raises it by exactly one (after k ties it is k + 1).
C8_RoundCounts ==
    [][\A c \in Cmds :
          (message[c].kind = "Round" /\ message'[c].kind = "Round")
              => /\ message'[c].round >= message[c].round
                 /\ \A u \in Humans : \A id \in Pressable(c) :
                       (/\ Len(id) = 3 /\ id[2] = id[3]
                        /\ to_string(u) = id[1] /\ u # cmd_user[c]
                        /\ interaction(c, u, id, TRUE))
                           => message'[c].round = message[c].round + 1]_vars

\* C9: for all 9 pairs of moves the resolver gives a tie exactly when the
\* moves are equal and otherwise the player whose move beats the other's;
\* exchanging the two moves exchanges the winner.
C9_Resolver ==
    \A c \in Cmds :
        pc[c] \in {"loop", "resolved"} =>
            \A a \in Moves, b \in Moves :
                LET i == cmd_user[c]
                    r == opponent[c]
                    w == winner(a, b, i, r)
                    x == winner(b, a, i, r)
                IN  /\ (w = NoUser) <=> (a = b)
                    /\ (w = i) <=> Beats(a, b)
                    /\ (w = r) <=> Beats(b, a)
                    /\ (x = i) <=> (w = r)
                    /\ (x = r) <=> (w = i)

C9_Witness ==
    \E c \in Cmds :
        /\ pc[c] = "resolved"
        /\ message[c].kind = "Congratulations"
        /\ message[c].who = opponent[c]

\* C10: an accept or decline press by anyone but the responder changes
\* nothing: the hosting message (phase, round, pending move), the handler's
\* position and the registry stay as they are, and the reply is an ephemeral
\* failure notice.
C10_NotResponder ==
    [][\A c \in Cmds, u \in Humans :
          \A id \in {<<"play">>, <<"deny">>} :
              (u # opponent[c] /\ Press(c, u, id))
                  => /\ UNCHANGED <<SESSIONS, pc, message, stale>>
                     /\ notice'.ephemeral
                     /\ notice'.text =
                          "You are not the user who has to reply to the command!"]_vars

C10_Witness ==
    \E c \in Cmds :
        /\ pc[c] = "loop"
        /\ message[c].kind = "Confirmation"
        /\ notice.ephemeral
        /\ notice.text = "You are not the user who has to reply to the command!"

(***************************************************************************)
(* The session as the hosting message shows it: the program keeps the turn *)
(* and the pending first move nowhere else.                                *)
(***************************************************************************)

\* The move buttons among a set of custom_ids.
MoveIds(S) == {id \in S : id[Len(id)] \in Moves}

\* The first move the message's buttons carry, "none" when they carry none.
PendingMove(m) ==
    IF \E id \in MoveIds(m.components) : Len(id) = 3
      THEN (CHOOSE id \in MoveIds(m.components) : Len(id) = 3)[2]
      ELSE "none"

\* m is the first-move prompt of round n: no move is pending and every move
\* button is the initiator's.
FirstMovePrompt(c, m, n) ==
    /\ m.kind = "Round" /\ m.round = n /\ m.who = cmd_user[c]
    /\ MoveIds(m.components) = {<<to_string(cmd_user[c]), t>> : t \in Moves}
    /\ PendingMove(m) = "none"

\* The step is a press of a first-move button by somebody other than the
\* initiator, and it is not accepted: the session stays as it is.
FirstMoveRefused(c) ==
    \A u \in Humans \ {cmd_user[c]} : \A id \in MoveIds(Pressable(c)) :
        (Len(id) = 2 /\ Press(c, u, id))
            => UNCHANGED <<SESSIONS, pc, message, stale>>

C14_NotParticipant ==
    [][\A c \in Cmds : \A u \in Humans \ {cmd_user[c], opponent[c]} :
          \A id \in MoveIds(Pressable(c)) :
              Press(c, u, id)
                  => /\ UNCHANGED <<SESSIONS, pc, message, stale>>
                     /\ notice'.ephemeral
                     /\ notice'.text =
                          "You did not invoke the initial command!"]_vars

(***************************************************************************)
(* Admission.                                                              *)
(***************************************************************************)

\* The registry entries that carry the id of command c's message.
Own(c, S) == {s \in S : s[2] = MsgId(c)}

\* Some registry entry is user a's or user b's.
Registered(a, b) == \E s \in SESSIONS : s[1] \in {a, b}

\* The step is the start of command c's handler.
Starts(c) == pc[c] = "idle" /\ pc'[c] # "idle"

\* C15: an invitation whose responder is a bot or the initiator is rejected
\* as invalid opponent whether or not either user is registered: nothing is
\* published, no handler goes on, the registry is as it was.
C15_InvalidOpponent ==
    [][\A c \in Cmds :
          /\ (Starts(c) /\ (opponent'[c] \in Bots
                              \/ opponent'[c] = cmd_user'[c]))
                => /\ pc'[c] = "invalid"
                   /\ SESSIONS' = SESSIONS
                   /\ message' = message
                   /\ notice'.ephemeral
                   /\ notice'.text =
                        "You cannot play against the specified user!"
          /\ pc[c] = "invalid"
                => /\ pc'[c] = "invalid"
                   /\ message'[c] = NoMessage
                   /\ Own(c, SESSIONS') = {}]_vars

\* A registered user has just invited a bot or themselves, and was told the
\* opponent is invalid.
C15_Witness ==
    \E c \in Cmds :
        /\ pc[c] = "invalid"
        /\ \E s \in SESSIONS : s[1] = cmd_user[c]
        /\ notice.ephemeral
        /\ notice.text = "You cannot play against the specified user!"

\* C16: an invitation to a valid opponent, issued while its initiator or its
\* responder owns a registry entry, is rejected as already occupied: no
\* prompt is published, no handler goes on, the registry is as it was.
C16_AlreadyOccupied ==
    [][\A c \in Cmds :
          /\ (/\ Starts(c)
              /\ opponent'[c] \notin Bots /\ opponent'[c] # cmd_user'[c]
              /\ Registered(cmd_user'[c], opponent'[c]))
                => /\ pc'[c] = "occupied"
                   /\ SESSIONS' = SESSIONS
                   /\ message' = message
                   /\ notice'.ephemeral
                   /\ notice'.text =
                        "Either user is already playing tic-tac-toe!"
          /\ pc[c] = "occupied"
                => /\ pc'[c] = "occupied"
                   /\ message'[c] = NoMessage
                   /\ Own(c, SESSIONS') = {}]_vars

\* Users A and B are in a session, and a third user who invited one of them
\* has just been told that they are occupied.
C16_Witness ==
    \E c \in Cmds, d \in Cmds :
        /\ pc[d] = "loop" /\ Entries(d) \subseteq SESSIONS
        /\ pc[c] = "occupied"
        /\ cmd_user[c] \notin {cmd_user[d], opponent[d]}
        /\ opponent[c] \in {cmd_user[d], opponent[d]}
        /\ message[c] = NoMessage
        /\ notice.text = "Either user is already playing tic-tac-toe!"

(***************************************************************************)
(* The end of a session.                                                   *)
(***************************************************************************)

\* The presses that take a terminal branch: a decline by the responder, the
\* second move of a decisive round, a stop.
TerminalPress(c, u, id) ==
    \/ id = <<"deny">> /\ u = opponent[c]
    \/ /\ Len(id) = 3 /\ id[3] \in Moves /\ id[2] # id[3]
       /\ to_string(u) = id[1] /\ u # cmd_user[c]
    \/ id = <<"stop">>

\* C17: a terminal branch (decline, decisive round, stop) and the timeout
\* end the handler, and an ended handler stays where it ended: no press and
\* no timeout of the session is processed any more, its message, round and
\* participants stay as they are, and its registry entries are touched by
\* nothing but the purge that follows the deletion of its message.
C17_OneTerminalTransition ==
    [][\A c \in Cmds :
          /\ \A u \in Humans : \A id \in Pressable(c) :
                (TerminalPress(c, u, id) /\ Press(c, u, id))
                    => pc'[c] \in Terminal
          /\ Timeout(c) => pc'[c] \in Terminal
          /\ pc[c] \in Terminal
                => /\ pc'[c] = pc[c]
                   /\ ~ Timeout(c)
                   /\ \A u \in Humans : \A id \in Pressable(c) :
                         ~ Press(c, u, id)
                   /\ message'[c] = message[c]
                   /\ round_counter'[c] = round_counter[c]
                   /\ cmd_user'[c] = cmd_user[c]
                   /\ opponent'[c] = opponent[c]
                   /\ \/ Own(c, SESSIONS') = Own(c, SESSIONS)
                      \/ message_delete(MsgId(c))]_vars

\* The responder declined and the decline notice was not delivered: the
\* prompt still shows its buttons, and the handler has ended.
C17_Witness ==
    \E c \in Cmds :
        /\ pc[c] = "declined"
        /\ message[c].kind = "Confirmation"
        /\ {<<"play">>, <<"deny">>} \subseteq Pressable(c)

(***************************************************************************)
(* Delivery of the replies.                                                *)
(***************************************************************************)

\* C18: every transition takes effect whether or not its reply is
\* delivered: the invitation goes on to admission, an accepted first move is
\* pending afterwards with the responder to move, a tie leaves no move
\* pending with the initiator to move, and a terminal press ends the session
\* with both entries released.
C18_DeliveryIndependent ==
    [][\A c \in Cmds :
          /\ (pc[c] = "checked" /\ pc'[c] # "checked")
                => pc'[c] = "prompted"
          /\ \A u \in Humans : \A id \in Pressable(c) :
                Press(c, u, id)
                    => /\ (id = <<"play">> /\ u = opponent[c])
                             => FirstMovePrompt(c, message'[c], 1)
                       /\ (/\ Len(id) = 2 /\ id[2] \in Moves
                           /\ to_string(u) = id[1] /\ u = cmd_user[c])
                             => /\ PendingMove(message'[c]) = id[2]
                                /\ message'[c].who = opponent[c]
                       /\ (/\ Len(id) = 3 /\ id[3] \in Moves
                           /\ id[2] = id[3]
                           /\ to_string(u) = id[1] /\ u # cmd_user[c])
                             => /\ PendingMove(message'[c]) = "none"
                                /\ message'[c].who = cmd_user[c]
                       /\ TerminalPress(c, u, id)
                             => pc'[c] \in Terminal /\ ReleasedNext(c)]_vars

\* C19: when the invitation prompt is published, and for as long as it can
\* be answered, the registry holds the entry of its initiator and the entry
\* of its responder for that session.
C19_AdmittedBeforePublished ==
    [][\A c \in Cmds :
          (pc[c] = "checked" /\ pc'[c] = "prompted")
              => Entries(c) \subseteq SESSIONS']_vars

(***************************************************************************)
(* Removal from the registry.                                              *)
(***************************************************************************)

\* C20: a release of entries that are absent (the terminal release of a
\* session whose message was deleted and purged before, the purge of a
\* message that has no entry) leaves the registry as it is and the handler
\* ends as usual; a release done again after a release changes nothing.
C20_ReleaseIdempotent ==
    [][\A c \in Cmds :
          /\ \A u \in Humans : \A id \in Pressable(c) :
                (TerminalPress(c, u, id) /\ Press(c, u, id))
                    => /\ pc'[c] \in Terminal
                       /\ Own(c, SESSIONS') = {}
                       /\ Own(c, SESSIONS) = {} => SESSIONS' = SESSIONS
                       /\ Release(c)' = SESSIONS'
          /\ message_delete(MsgId(c))
                => /\ Own(c, SESSIONS') = {}
                   /\ Own(c, SESSIONS) = {} => SESSIONS' = SESSIONS
                   /\ {t \in SESSIONS' : t[2] # MsgId(c)} = SESSIONS']_vars

\* The message of a running game was deleted and its entries purged: the
\* release of whatever terminal branch comes next finds them absent.
C20_Witness ==
    \E c \in Cmds :
        /\ pc[c] = "loop"
        /\ message[c].kind = "Round"
        /\ Own(c, SESSIONS) = {}

(***************************************************************************)
(* The final result.                                                       *)
(***************************************************************************)

\* The name a move has in the final result.
Shown == [rock |-> "Rock", paper |-> "Paper", scissors |-> "Scissors"]

\* C21: the move the initiator submits is the one the responder's buttons
\* carry, and on a decisive round the result that is published names as
\* winner the player whose move beats the other's, shows the winner's move
\* as the winner's and the loser's as the loser's, and the former beats the
\* latter.
C21_ResultAttribution ==
    [][\A c \in Cmds : \A u \in Humans : \A id \in MoveIds(Pressable(c)) :
          /\ (/\ Len(id) = 2 /\ to_string(u) = id[1] /\ u = cmd_user[c]
              /\ interaction(c, u, id, TRUE))
                => \A b \in MoveIds(message'[c].components) :
                       Len(b) = 3 /\ b[2] = id[2]
          /\ (/\ Len(id) = 3 /\ id[2] # id[3]
              /\ to_string(u) = id[1] /\ u # cmd_user[c]
              /\ interaction(c, u, id, TRUE))
                => LET mine == id[3]
                       theirs == id[2]
                       r == message'[c]
                   IN  /\ r.kind = "Congratulations"
                       /\ r.who \in {cmd_user[c], u}
                       /\ r.who = u <=> Beats(mine, theirs)
                       /\ r.who = cmd_user[c] <=> Beats(theirs, mine)
                       /\ r.winner_turn =
                            Shown[IF r.who = u THEN mine ELSE theirs]
                       /\ r.loser_turn =
                            Shown[IF r.who = u THEN theirs ELSE mine]
                       /\ \E a \in Moves, b \in Moves :
                             /\ Shown[a] = r.winner_turn
                             /\ Shown[b] = r.loser_turn
                             /\ Beats(a, b)]_vars

\* The initiator played rock, the responder scissors, and the result names
\* the initiator as winner with rock over scissors.
C21_Witness ==
    \E c \in Cmds :
        /\ pc[c] = "resolved"
        /\ message[c].kind = "Congratulations"
        /\ message[c].who = cmd_user[c]
        /\ message[c].winner_turn = "Rock"
        /\ message[c].loser_turn = "Scissors"

(***************************************************************************)
(* Who may act, and when.                                                  *)
(***************************************************************************)

\* C22: a stop press by a user who is neither the initiator nor the
\* responder does not end the session: the handler goes on, and the message
\* (phase, round, pending move) and the registry are as they were.
C22_StopByOutsider ==
    [][\A c \in Cmds : \A u \in Humans \ {cmd_user[c], opponent[c]} :
          Press(c, u, <<"stop">>)
              => /\ pc'[c] = "loop"
                 /\ UNCHANGED <<SESSIONS, message, stale>>]_vars

\* C23: a press whose custom_id is not among the buttons the message shows
\* now (an accept or a decline after the game began, a first-move button
\* after that move was recorded, a second-move button of a round that is
\* over) causes no transition: the handler's position, the message (phase,
\* turn, pending move, round) and the registry are as they were.
C23_OutdatedTagIgnored ==
    [][\A c \in Cmds : \A u \in Humans :
          \A id \in Pressable(c) \ message[c].components :
              Press(c, u, id)
                  => UNCHANGED <<SESSIONS, pc, message>>]_vars

\* C24: the update published after the initiator's first move is the same
\* whichever move it was: the step taken for the move pressed is also the
\* step of each other first move the initiator could have pressed.
C24_FirstMoveHidden ==
    [][\A c \in Cmds : \A id \in MoveIds(Pressable(c)) :
          (/\ Len(id) = 2 /\ id[1] = to_string(cmd_user[c])
           /\ interaction(c, cmd_user[c], id, TRUE))
              => \A t \in Moves :
                    /\ interaction(c, cmd_user[c], <<id[1], t>>, TRUE)
                    /\ \A b \in message'[c].components : t \notin
                          {b[i] : i \in 1 .. Len(b) - 1}]_vars

(***************************************************************************)
(* Sessions side by side.                                                  *)
(***************************************************************************)

\* C25: a registry entry is removed only by the terminal branch of the
\* handler whose message it names, or by the purge after that message was
\* deleted: whatever a handler does, its release included, the entries that
\* name another session's message stay, also those of a user it shares.
C25_RemovesOwnEntriesOnly ==
    [][\A s \in SESSIONS \ SESSIONS' :
          \E c \in Cmds :
              /\ MsgId(c) = s[2]
              /\ \/ /\ pc[c] = "loop"
                    /\ pc'[c] \in {"declined", "resolved", "stopped"}
                 \/ /\ pc' = pc /\ message' = message
                    /\ SESSIONS' = {t \in SESSIONS : t[2] # s[2]}]_vars

\* Two sessions with a user in common; the handler of one has ended on a
\* terminal branch and released, the other's entries are in place.
C25_Witness ==
    \E c \in Cmds, d \in Cmds :
        /\ pc[c] \in {"declined", "resolved", "stopped"} /\ Released(c)
        /\ pc[d] = "loop" /\ Entries(d) \subseteq SESSIONS
        /\ {cmd_user[c], opponent[c]} \cap {cmd_user[d], opponent[d]} # {}

(***************************************************************************)
(* Termination.                                                            *)
(***************************************************************************)

\* C26: with the stream's deadline, the event loop of every admitted
\* session ends, whatever ties and rejected presses come before.
C26_LoopEnds ==
    \A c \in Cmds : (pc[c] = "loop") ~> (pc[c] \in Terminal)

\* A session that went through a tie and was ended by the deadline.
C26_Witness ==
    \E c \in Cmds :
        /\ pc[c] = "expired"
        /\ message[c].kind = "Round" /\ message[c].round = 2

====
